---- MODULE Spec2Model ----
(***************************************************************************)
(* Model of src/app.py: the EONETData event cache (fetch_events,           *)
(* fetch_categories), the filter engine (get_filtered_events) and the      *)
(* analytics engine (get_summary_statistics, get_trend_analysis).          *)
(*                                                                         *)
(* Python values are records [t, n, s, a]: t is the type tag ("absent" for *)
(* a dictionary key that is missing, "none", "num", "str", "list"), n a    *)
(* float in tenths, s a character string as a sequence of one-character    *)
(* strings, a an identifier string that is only ever compared for          *)
(* equality.  A missing list-valued key (geometry, categories) and an      *)
(* empty list behave alike in every statement modelled here (both raise on *)
(* [0], both are falsy under .get), so both are the empty sequence.        *)
(***************************************************************************)
EXTENDS Integers, Sequences, FiniteSets, TLC

VARIABLES
    events_cache,      \* self.events_cache: NoCache or a payload [t, events]
    categories_cache,  \* self.categories_cache: "none" or a categories payload
    last_update,       \* self.last_update: 0 (None) or a clock reading
    data_lock,         \* self.data_lock: 0 (free) or the fetcher holding it
    fpc,               \* fetcher -> position in fetch_events / fetch_categories
    fresp,             \* fetcher -> the response of its request (local)
    fret,              \* fetcher -> what its last call gave the caller
    fcall,             \* fetcher -> number of the call it is running
    fstamp,            \* fetcher -> the datetime.now() it stored (local)
    calls,             \* number of refresh calls started so far
    clock,             \* the wall clock, advanced by every reading
    cacheBy,           \* history: the call that stored events_cache
    stampBy,           \* history: the call that stored last_update
    committed,         \* history: call -> what a call that returned True wrote
    rpc,               \* reader: position in the read operation
    rop,               \* reader: the operation called
    rargs,             \* reader: the arguments of the call
    rlocal,            \* reader: local values of the call in progress
    rresult,           \* reader: the returned value
    seen               \* history: cache values held while the read ran

vars == <<events_cache, categories_cache, last_update, data_lock, fpc, fresp,
          fret, fcall, fstamp, calls, clock, cacheBy, stampBy, committed,
          rpc, rop, rargs, rlocal, rresult, seen>>

fetchVars == <<categories_cache, last_update, data_lock, fpc, fresp, fret,
               fcall, fstamp, calls, clock, cacheBy, stampBy, committed>>

readVars == <<rpc, rop, rargs, rlocal, rresult, seen>>

---------------------------------------------------------------------------
(* Bounds *)

\* longest events list of a payload in SpecPure
MaxEvents == 2
\* longest events list of a payload in SpecTrend
MaxTrendEvents == 3
\* refresh calls started in Spec
MaxCalls == 3

---------------------------------------------------------------------------
(* Characters and strings *)

\* the characters used, in ASCII order
CharOrder ==
    <<" ", "-", ".", "0", "1", "2", "3", "4", "5", "6", "7", "8", "9",
      ":", "T", "W", "Z", "a", "b", "c">>

\* the rank of each character in that order
OrdTable ==
    [c \in {CharOrder[i] : i \in 1..Len(CharOrder)} |->
        CHOOSE i \in 1..Len(CharOrder) : CharOrder[i] = c]

Ord(c) == OrdTable[c]

IsDigit(c) == Ord(c) >= Ord("0") /\ Ord(c) <= Ord("9")

DigitVal(c) == Ord(c) - Ord("0")

DigitChar(d) == CharOrder[Ord("0") + d]

\* Python's < on str: lexicographic by code point, a proper prefix is smaller
RECURSIVE StrLess(_, _)
StrLess(x, y) ==
    IF y = <<>> THEN FALSE
    ELSE IF x = <<>> THEN TRUE
    ELSE IF Ord(Head(x)) < Ord(Head(y)) THEN TRUE
    ELSE IF Ord(Head(x)) > Ord(Head(y)) THEN FALSE
    ELSE StrLess(Tail(x), Tail(y))

\* s[:n]
Slice(s, n) == SubSeq(s, 1, IF Len(s) < n THEN Len(s) ELSE n)

\* str.strip() for the blank
RECURSIVE LStrip(_)
LStrip(s) == IF s # <<>> /\ Head(s) = " " THEN LStrip(Tail(s)) ELSE s

RECURSIVE RStrip(_)
RStrip(s) ==
    IF s # <<>> /\ s[Len(s)] = " " THEN RStrip(SubSeq(s, 1, Len(s) - 1)) ELSE s

Strip(s) == RStrip(LStrip(s))

\* the value of a string of decimal digits
RECURSIVE DigitsVal(_)
DigitsVal(s) ==
    IF s = <<>> THEN 0
    ELSE 10 * DigitsVal(SubSeq(s, 1, Len(s) - 1)) + DigitVal(s[Len(s)])

AllDigits(s) == \A i \in 1..Len(s) : IsDigit(s[i])

\* index of the first occurrence of c in s, 0 when there is none
FirstIndex(s, c) ==
    IF \E i \in 1..Len(s) : s[i] = c
    THEN CHOOSE i \in 1..Len(s) : s[i] = c /\ \A j \in 1..(i - 1) : s[j] # c
    ELSE 0

Pad2(n) == <<DigitChar(n \div 10), DigitChar(n % 10)>>

Pad4(n) ==
    <<DigitChar(n \div 1000), DigitChar((n \div 100) % 10),
      DigitChar((n \div 10) % 10), DigitChar(n % 10)>>

---------------------------------------------------------------------------
(* Python values *)

Absent == [t |-> "absent", n |-> 0, s |-> <<>>, a |-> ""]
None == [t |-> "none", n |-> 0, s |-> <<>>, a |-> ""]
Num(x) == [t |-> "num", n |-> x, s |-> <<>>, a |-> ""]
Str(x) == [t |-> "str", n |-> 0, s |-> x, a |-> ""]
Ident(x) == [t |-> "str", n |-> 0, s |-> <<>>, a |-> x]
ListVal == [t |-> "list", n |-> 0, s |-> <<>>, a |-> ""]

\* bool(v) as the if statements of the code apply it
Truthy(v) ==
    CASE v.t = "none" -> FALSE
      [] v.t = "absent" -> FALSE
      [] v.t = "num" -> v.n # 0
      [] v.t = "str" -> v.s # <<>> \/ v.a # ""
      [] OTHER -> TRUE

\* float(text) of a string: blanks stripped, an optional sign, digits and
\* at most one fractional digit (values are kept in tenths)
FloatOfString(text) ==
    LET s0 == Strip(text)
        neg == s0 # <<>> /\ Head(s0) = "-"
        s == IF neg THEN Tail(s0) ELSE s0
        dot == FirstIndex(s, ".")
        ip == IF dot = 0 THEN s ELSE SubSeq(s, 1, dot - 1)
        fp == IF dot = 0 THEN <<>> ELSE SubSeq(s, dot + 1, Len(s))
        wellFormed ==
            /\ ip # <<>> /\ AllDigits(ip)
            /\ IF dot = 0 THEN TRUE ELSE Len(fp) = 1 /\ AllDigits(fp)
        mag == 10 * DigitsVal(ip) + DigitsVal(fp)
    IN IF wellFormed
       THEN [ok |-> TRUE, v |-> IF neg THEN 0 - mag ELSE mag]
       ELSE [ok |-> FALSE, v |-> 0]

\* float(v): ok = FALSE stands for ValueError (bad text) or TypeError
\* (None, a list)
Float(v) ==
    CASE v.t = "num" -> [ok |-> TRUE, v |-> v.n]
      [] v.t = "str" -> FloatOfString(v.s)
      [] OTHER -> [ok |-> FALSE, v |-> 0]

\* str(v).strip() is a non-empty string
StrStripTruthy(v) == IF v.t = "str" THEN Strip(v.s) # <<>> ELSE TRUE

---------------------------------------------------------------------------
(* Events, payloads and the arguments of the read operations *)

Frame(date, mv, mu) ==
    [date |-> date, magnitudeValue |-> mv, magnitudeUnit |-> mu]

Category(id, title) == [id |-> id, title |-> title]

Event(id, cats, geom, mv, mu) ==
    [id |-> id, categories |-> cats, geometry |-> geom,
     magnitudeValue |-> mv, magnitudeUnit |-> mu]

\* "YYYY-MM-DD"
Day(y, m, d) == Pad4(y) \o <<"-">> \o Pad2(m) \o <<"-">> \o Pad2(d)

\* "YYYY-MM-DDT00:00:00Z", the form of the feed's dates
Stamp(y, m, d) ==
    Day(y, m, d) \o <<"T", "0", "0", ":", "0", "0", ":", "0", "0", "Z">>

Wildfires == Category("wildfires", "Wildfires")
Volcanoes == Category("volcanoes", "Volcanoes")

\* magnitude 2.0 on the only frame
EvFrameMag ==
    Event("EONET_1", <<Wildfires>>,
          <<Frame(Str(Stamp(2024, 1, 1)), Num(20), Ident("acres"))>>,
          Absent, Absent)

\* magnitude 7.5 on the event itself
EvRootMag ==
    Event("EONET_2", <<Wildfires>>,
          <<Frame(Str(Stamp(2024, 1, 15)), Absent, Absent)>>,
          Num(75), Ident("kts"))

\* the feed's usual frame: magnitudeValue and magnitudeUnit are null
EvNullMag ==
    Event("EONET_3", <<Volcanoes>>,
          <<Frame(Str(Stamp(2024, 2, 1)), None, None)>>,
          Absent, Absent)

\* unparsable on the event and on the first frame, " 0 " on the second
EvChainMag ==
    Event("EONET_4", <<Volcanoes>>,
          <<Frame(Str(Stamp(2024, 1, 15)), Str(<<"a", "b", "c">>), Ident("kts")),
            Frame(Str(Stamp(2024, 1, 20)), Str(<<" ", "0", " ">>), Ident("kts"))>>,
          Str(<<"a", "b", "c">>), Absent)

\* no geometry frames, magnitude 5.0 on the event
EvNoGeometry ==
    Event("EONET_5", <<Wildfires>>, <<>>, Num(50), Ident("kts"))

\* no categories, an empty magnitude text on the event, a list on the frame
EvNoCategory ==
    Event("EONET_6", <<>>,
          <<Frame(Str(Stamp(2024, 1, 1)), ListVal, Absent)>>,
          Str(<<>>), Absent)

EventPool ==
    {EvFrameMag, EvRootMag, EvNullMag, EvChainMag, EvNoGeometry, EvNoCategory}

\* the sequences over S of length at most n
SeqsUpTo(S, n) == UNION {[1..k -> S] : k \in 0..n}

NoCache == [t |-> "none", events |-> <<>>]

Payload(evs) == [t |-> "dict", events |-> evs]

\* `not self.events_cache` is false: a payload is a non-empty dictionary
CacheTruthy(c) == c.t = "dict"

Args(sd, ed, et, mn, mx, per) ==
    [start_date |-> sd, end_date |-> ed, event_type |-> et,
     min_magnitude |-> mn, max_magnitude |-> mx, period |-> per]

NoArgs == Args(None, None, None, None, None, "")

DateArgs == {None, Str(<<>>), Str(Day(2024, 1, 15)), Str(Day(2024, 2, 1))}

TypeArgs == {None, Ident("wildfires"), Ident("volcanoes")}

MinArgs == {None, Num(0), Num(20), Str(<<"a", "b", "c">>)}

MaxArgs == {None, Num(0), Str(<<"0">>), Str(<<"2", ".", "0">>)}

NoResult == [status |-> "none"]

---------------------------------------------------------------------------
(* get_filtered_events, src/app.py lines 84-137 *)

\* the [:10] of the date slices
DateLen == 10

\* event['geometry'][0]['date'][:10] raises: no frame (KeyError, IndexError),
\* no date key (KeyError), a date that is no string (TypeError)
RepDateRaises(e) == e.geometry = <<>> \/ e.geometry[1].date.t # "str"

\* event['geometry'][0]['date'][:10]
RepDate(e) == Slice(e.geometry[1].date.s, DateLen)

\* line 94: event['geometry'][0]['date'][:10] < start_date
DropByStart(e, a) == StrLess(RepDate(e), a.start_date.s)

\* line 96: event['geometry'][0]['date'][:10] > end_date
\* (DropNoTruncation: the comparison without the [:10])
DropNoTruncation(e, a) == StrLess(a.end_date.s, e.geometry[1].date.s)
DropByEnd(e, a) == StrLess(a.end_date.s, RepDate(e))

\* event['categories'][0]['id'] raises: no category (KeyError, IndexError)
FirstCategoryRaises(e) == e.categories = <<>>

NoMagnitude == [some |-> FALSE, v |-> 0]

\* lines 105-111: the magnitude of the event itself
RootMagnitude(e) ==
    LET mag_value == e.magnitudeValue
    IN IF /\ mag_value.t # "absent"
          /\ mag_value.t # "none"
          /\ StrStripTruthy(mag_value)
          /\ Float(mag_value).ok
       THEN [some |-> TRUE, v |-> Float(mag_value).v]
       ELSE NoMagnitude

\* lines 115-122: the first frame, from frame i on, with a parsable magnitude
RECURSIVE GeometryMagnitude(_, _)
GeometryMagnitude(geometry, i) ==
    IF i > Len(geometry) THEN NoMagnitude
    ELSE LET mag_value == geometry[i].magnitudeValue
         IN IF /\ mag_value.t # "absent"
               /\ mag_value.t # "none"
               /\ StrStripTruthy(mag_value)
               /\ Float(mag_value).ok
            THEN [some |-> TRUE, v |-> Float(mag_value).v]
            ELSE GeometryMagnitude(geometry, i + 1)

\* lines 102-122: the event's magnitude first, the frames otherwise
ResolveMagnitude(e) ==
    IF RootMagnitude(e).some THEN RootMagnitude(e)
    ELSE IF e.geometry # <<>> THEN GeometryMagnitude(e.geometry, 1)
    ELSE NoMagnitude

\* lines 125-129: "keep", "drop" (continue) or "raise" (float of the bound)
\* (MagnitudeNoneAsZero: without the test `magnitude is not None`)
MagnitudeNoneAsZero(magnitude, a) ==
    IF a.min_magnitude.t # "none" \/ a.max_magnitude.t # "none"
    THEN IF Truthy(a.min_magnitude) /\ ~Float(a.min_magnitude).ok THEN "raise"
         ELSE IF Truthy(a.min_magnitude)
                 /\ magnitude.v < Float(a.min_magnitude).v THEN "drop"
         ELSE IF Truthy(a.max_magnitude) /\ ~Float(a.max_magnitude).ok THEN "raise"
         ELSE IF Truthy(a.max_magnitude)
                 /\ magnitude.v > Float(a.max_magnitude).v THEN "drop"
         ELSE "keep"
    ELSE "keep"
MagnitudeFilter(magnitude, a) ==
    IF /\ magnitude.some
       /\ (a.min_magnitude.t # "none" \/ a.max_magnitude.t # "none")
    THEN IF Truthy(a.min_magnitude) /\ ~Float(a.min_magnitude).ok THEN "raise"
         ELSE IF Truthy(a.min_magnitude)
                 /\ magnitude.v < Float(a.min_magnitude).v THEN "drop"
         ELSE IF Truthy(a.max_magnitude) /\ ~Float(a.max_magnitude).ok THEN "raise"
         ELSE IF Truthy(a.max_magnitude)
                 /\ magnitude.v > Float(a.max_magnitude).v THEN "drop"
         ELSE "keep"
    ELSE "keep"

\* lines 93-131, the body of the try for one event
EventOutcome(e, a) ==
    IF Truthy(a.start_date) /\ RepDateRaises(e) THEN "raise"
    ELSE IF Truthy(a.start_date) /\ DropByStart(e, a) THEN "drop"
    ELSE IF Truthy(a.end_date) /\ RepDateRaises(e) THEN "raise"
    ELSE IF Truthy(a.end_date) /\ DropByEnd(e, a) THEN "drop"
    ELSE IF Truthy(a.event_type) /\ FirstCategoryRaises(e) THEN "raise"
    ELSE IF Truthy(a.event_type) /\ e.categories[1].id # a.event_type.a
         THEN "drop"
    ELSE MagnitudeFilter(ResolveMagnitude(e), a)

\* line 131: filtered_events.append(event)
\* (PrependEvent: insert(0, event) in its place)
PrependEvent(st, e) == [st EXCEPT !.events = <<e>> \o @]
AppendEvent(st, e) == [st EXCEPT !.events = Append(@, e)]

\* lines 133-135: the except clause prints and continues
\* (ExceptPropagate: the exception leaves the loop)
ExceptPropagate(st) == [st EXCEPT !.status = "raised"]
ExceptContinue(st) == st

\* lines 91-135: the loop from event i on; st is the call's state so far
RECURSIVE FilterLoop(_, _, _, _)
FilterLoop(events, i, a, st) ==
    IF i > Len(events) \/ st.status = "raised" THEN st
    ELSE LET o == EventOutcome(events[i], a)
             st1 == CASE o = "keep" -> AppendEvent(st, events[i])
                      [] o = "drop" -> st
                      [] OTHER -> ExceptContinue(st)
         IN FilterLoop(events, i + 1, a, st1)

\* lines 90-137 on the payload the loop iterates
FilterPayload(cache, a) ==
    FilterLoop(cache.events, 1, a, [status |-> "ok", events |-> <<>>])

\* get_filtered_events run to its end on one cache value
get_filtered_events(cache, a) ==
    IF ~CacheTruthy(cache) THEN [status |-> "ok", events |-> <<>>]
    ELSE FilterPayload(cache, a)

---------------------------------------------------------------------------
(* Dictionaries keep insertion order: a sequence of [k, c] entries *)

HasKey(d, k) == \E i \in 1..Len(d) : d[i].k = k

\* d[k] = d.get(k, 0) + 1
DictInc(d, k) ==
    IF HasKey(d, k)
    THEN [i \in 1..Len(d) |->
            IF d[i].k = k THEN [k |-> k, c |-> d[i].c + 1] ELSE d[i]]
    ELSE Append(d, [k |-> k, c |-> 1])

\* list(d.keys()), list(d.values())
Keys(d) == [i \in 1..Len(d) |-> d[i].k]
Values(d) == [i \in 1..Len(d) |-> d[i].c]

---------------------------------------------------------------------------
(* get_summary_statistics, src/app.py lines 229-285 *)

\* the bounds of the magnitude buckets, in tenths: 1.5 and 5.0
LowBelow == 15
MediumBelow == 50

\* lines 231-240
EmptyStats ==
    [event_count |-> 0, categories |-> <<>>,
     magnitudes |-> [low |-> 0, medium |-> 0, high |-> 0],
     daily_counts |-> <<>>]

\* line 245: stats['event_count'] = len(self.events_cache['events'])
SummaryCount(stats, cache) == [stats EXCEPT !.event_count = Len(cache.events)]

\* lines 265-269: the first frame, from frame i on, that has both keys
RECURSIVE SummaryGeometryMagnitude(_, _)
SummaryGeometryMagnitude(geometry, i) ==
    IF i > Len(geometry) THEN [raised |-> FALSE, some |-> FALSE, v |-> 0]
    ELSE IF /\ geometry[i].magnitudeValue.t # "absent"
            /\ geometry[i].magnitudeUnit.t # "absent"
         THEN LET f == Float(geometry[i].magnitudeValue)
              IN [raised |-> ~f.ok, some |-> f.ok, v |-> f.v]
         ELSE SummaryGeometryMagnitude(geometry, i + 1)

\* lines 258-269: raised stands for the ValueError or TypeError of float()
SummaryMagnitude(e) ==
    IF e.magnitudeValue.t # "absent" /\ e.magnitudeUnit.t # "absent"
    THEN LET f == Float(e.magnitudeValue)
         IN [raised |-> ~f.ok, some |-> f.ok, v |-> f.v]
    ELSE IF e.geometry # <<>> THEN SummaryGeometryMagnitude(e.geometry, 1)
    ELSE [raised |-> FALSE, some |-> FALSE, v |-> 0]

\* lines 271-279
CountMagnitude(stats, m) ==
    IF m.some
    THEN IF m.v < LowBelow
         THEN [stats EXCEPT !.magnitudes.low = @ + 1]
         ELSE IF m.v < MediumBelow
              THEN [stats EXCEPT !.magnitudes.medium = @ + 1]
              ELSE [stats EXCEPT !.magnitudes.high = @ + 1]
    ELSE [stats EXCEPT !.magnitudes.low = @ + 1]

\* lines 248-283 for one event: what was counted before a statement raised
\* stays counted
SummaryEvent(stats, e) ==
    IF FirstCategoryRaises(e) THEN stats
    ELSE LET s1 == [stats EXCEPT
                      !.categories = DictInc(@, e.categories[1].title)]
         IN IF RepDateRaises(e) THEN s1
            ELSE LET s2 == [s1 EXCEPT !.daily_counts = DictInc(@, RepDate(e))]
                     m == SummaryMagnitude(e)
                 IN IF m.raised THEN s2 ELSE CountMagnitude(s2, m)

\* lines 247-283
RECURSIVE SummaryLoop(_, _, _)
SummaryLoop(events, i, stats) ==
    IF i > Len(events) THEN stats
    ELSE SummaryLoop(events, i + 1, SummaryEvent(stats, events[i]))

\* get_summary_statistics run to its end on one cache value
get_summary_statistics(cache) ==
    IF ~CacheTruthy(cache) THEN EmptyStats
    ELSE SummaryLoop(cache.events, 1, SummaryCount(EmptyStats, cache))

---------------------------------------------------------------------------
(* get_trend_analysis, src/app.py lines 287-313 *)

IsLeap(y) == (y % 4 = 0 /\ y % 100 # 0) \/ y % 400 = 0

DaysInMonth(y, m) ==
    IF m = 2 THEN (IF IsLeap(y) THEN 29 ELSE 28)
    ELSE IF m \in {4, 6, 9, 11} THEN 30 ELSE 31

RECURSIVE DaysBeforeMonth(_, _)
DaysBeforeMonth(y, m) ==
    IF m = 1 THEN 0 ELSE DaysBeforeMonth(y, m - 1) + DaysInMonth(y, m - 1)

\* datetime.strptime(text, '%Y-%m-%d'): four digits, one or two, one or two,
\* naming a day of the calendar; ok = FALSE stands for ValueError
ParseDate(text) ==
    LET d1 == FirstIndex(text, "-")
        rest == IF d1 = 0 THEN <<>> ELSE SubSeq(text, d1 + 1, Len(text))
        d2 == FirstIndex(rest, "-")
        ys == IF d1 = 0 THEN <<>> ELSE SubSeq(text, 1, d1 - 1)
        ms == IF d2 = 0 THEN <<>> ELSE SubSeq(rest, 1, d2 - 1)
        ds == IF d2 = 0 THEN <<>> ELSE SubSeq(rest, d2 + 1, Len(rest))
        y == DigitsVal(ys)
        m == DigitsVal(ms)
        d == DigitsVal(ds)
        ok == /\ d1 > 0 /\ d2 > 0
              /\ Len(ys) = 4 /\ AllDigits(ys)
              /\ Len(ms) \in 1..2 /\ AllDigits(ms)
              /\ Len(ds) \in 1..2 /\ AllDigits(ds)
              /\ y >= 1 /\ m \in 1..12
              /\ d >= 1 /\ d <= DaysInMonth(y, m)
    IN IF ok THEN [ok |-> TRUE, y |-> y, m |-> m, d |-> d]
       ELSE [ok |-> FALSE, y |-> 0, m |-> 0, d |-> 0]

\* date.weekday(): Monday is 0
Weekday(y, m, d) ==
    LET p == y - 1
        ordinal == 365 * p + (p \div 4) - (p \div 100) + (p \div 400)
                   + DaysBeforeMonth(y, m) + d
    IN (ordinal + 6) % 7

\* %W: the week of the year, Monday first, days before the first Monday in 00
WeekOfYear(y, m, d) ==
    LET yday == DaysBeforeMonth(y, m) + d - 1
    IN (yday + 7 - Weekday(y, m, d)) \div 7

\* lines 294-299
PeriodKey(date, period) ==
    IF period = "monthly" THEN Pad4(date.y) \o <<"-">> \o Pad2(date.m)
    ELSE IF period = "weekly"
         THEN Pad4(date.y) \o <<"-", "W">>
              \o Pad2(WeekOfYear(date.y, date.m, date.d))
    ELSE Day(date.y, date.m, date.d)

\* lines 292-301: the loop from event i on; nothing catches what line 293
\* raises
RECURSIVE TrendLoop(_, _, _, _)
TrendLoop(events, i, period, st) ==
    IF i > Len(events) \/ st.status = "raised" THEN st
    ELSE IF RepDateRaises(events[i]) \/ ~ParseDate(RepDate(events[i])).ok
         THEN [st EXCEPT !.status = "raised"]
    ELSE TrendLoop(events, i + 1, period,
            [st EXCEPT !.periods =
                DictInc(@, PeriodKey(ParseDate(RepDate(events[i])), period))])

RECURSIVE SumSeq(_)
SumSeq(s) == IF s = <<>> THEN 0 ELSE Head(s) + SumSeq(Tail(s))

MaxSeq(s) == CHOOSE x \in {s[i] : i \in 1..Len(s)} : \A j \in 1..Len(s) : s[j] <= x

MinSeq(s) == CHOOSE x \in {s[i] : i \in 1..Len(s)} : \A j \in 1..Len(s) : x <= s[j]

\* a quotient of two integers, as numerator and denominator
Quotient(n, d) == [num |-> n, den |-> d]

\* line 304
\* (TrendOverGaps: divided by the number of gaps between the buckets)
TrendOverGaps(counts) ==
    IF Len(counts) > 1
    THEN Quotient(counts[Len(counts)] - counts[1], Len(counts) - 1)
    ELSE Quotient(0, 1)
Trend(counts) ==
    IF Len(counts) > 1
    THEN Quotient(counts[Len(counts)] - counts[1], Len(counts))
    ELSE Quotient(0, 1)

\* lines 303-313
TrendResult(periods) ==
    LET counts == Values(periods)
    IN [status |-> "ok",
        periods |-> Keys(periods),
        counts |-> counts,
        trend |-> Trend(counts),
        average |-> IF counts # <<>> THEN Quotient(SumSeq(counts), Len(counts))
                    ELSE Quotient(0, 1),
        max |-> IF counts # <<>> THEN MaxSeq(counts) ELSE 0,
        min |-> IF counts # <<>> THEN MinSeq(counts) ELSE 0]

\* lines 291-313 on the events get_filtered_events returned
TrendOfFiltered(filtered, period) ==
    LET st == TrendLoop(filtered.events, 1, period,
                        [status |-> "ok", periods |-> <<>>])
    IN IF filtered.status = "raised" \/ st.status = "raised"
       THEN [status |-> "raised"]
       ELSE TrendResult(st.periods)

\* line 289: get_filtered_events(event_type=category)
TrendArgs(category, period) == Args(None, None, category, None, None, period)

\* get_trend_analysis run to its end on one cache value
get_trend_analysis(cache, category, period) ==
    TrendOfFiltered(get_filtered_events(cache, TrendArgs(category, period)),
                    period)

---------------------------------------------------------------------------
(* The refresh path: fetch_events and fetch_categories, lines 49-82 *)

Fetchers == {"f1", "f2"}

NoCategories == [t |-> "none", categories |-> <<>>]

CategoriesPayload == [t |-> "dict", categories |-> <<Wildfires, Volcanoes>>]

NoResponse == [kind |-> "none", body |-> NoCache]

\* what requests.get and the response can be: the transport fails (get
\* raises), the status is no success (raise_for_status raises), the body does
\* not decode (json raises), or the body decodes to a payload
Failure(kind) == [kind |-> kind, body |-> NoCache]

EventResponses ==
    {Failure("transport"), Failure("status"), Failure("undecodable"),
     [kind |-> "ok", body |-> Payload(<<EvFrameMag, EvRootMag>>)],
     [kind |-> "ok", body |-> Payload(<<EvNullMag>>)]}

CategoryResponses ==
    {Failure("transport"), Failure("status"), Failure("undecodable"),
     [kind |-> "ok", body |-> CategoriesPayload]}

\* the reader is inside a read operation
Reading == rpc \notin {"idle", "done"}

\* lines 49-62, and 69-71 when the request fails: fetch_events up to the lock
RequestEvents(f) ==
    /\ fpc[f] = "idle"
    /\ calls < MaxCalls
    /\ calls' = calls + 1
    /\ fcall' = [fcall EXCEPT ![f] = calls + 1]
    /\ fstamp' = [fstamp EXCEPT ![f] = 0]
    /\ \E r \in EventResponses :
         /\ fresp' = [fresp EXCEPT ![f] = r]
         /\ IF r.kind \in {"transport", "status"}
            THEN /\ fret' = [fret EXCEPT ![f] = "False"]
                 /\ UNCHANGED fpc
            ELSE /\ fpc' = [fpc EXCEPT ![f] = "e64"]
                 /\ fret' = [fret EXCEPT ![f] = "none"]
    /\ UNCHANGED <<events_cache, categories_cache, last_update, data_lock,
                   clock, cacheBy, stampBy, committed>>
    /\ UNCHANGED readVars

\* line 64: with self.data_lock
\* (EnterUnlocked: the body entered without waiting for the lock)
EnterUnlocked(f) ==
    /\ fpc[f] = "e64"
    /\ data_lock' = f
    /\ fpc' = [fpc EXCEPT ![f] = "e65"]
    /\ UNCHANGED <<events_cache, categories_cache, last_update, fresp, fret,
                   fcall, fstamp, calls, clock, cacheBy, stampBy, committed>>
    /\ UNCHANGED readVars
AcquireLock(f) ==
    /\ fpc[f] = "e64"
    /\ data_lock = "free"
    /\ data_lock' = f
    /\ fpc' = [fpc EXCEPT ![f] = "e65"]
    /\ UNCHANGED <<events_cache, categories_cache, last_update, fresp, fret,
                   fcall, fstamp, calls, clock, cacheBy, stampBy, committed>>
    /\ UNCHANGED readVars

\* line 65 when response.json() raises: nothing is assigned
\* (FailedDecodeClears: the cache reset before the body is decoded)
FailedDecodeClears(f) ==
    /\ events_cache' = NoCache
    /\ UNCHANGED <<last_update, cacheBy, stampBy, seen>>
FailedDecode(f) ==
    UNCHANGED <<events_cache, last_update, cacheBy, stampBy, seen>>

\* line 65: self.events_cache = response.json(); when json raises, the with
\* statement releases the lock and lines 69-71 return False
StoreEvents(f) ==
    /\ fpc[f] = "e65"
    /\ IF fresp[f].kind = "undecodable"
       THEN /\ FailedDecode(f)
            /\ data_lock' = "free"
            /\ fret' = [fret EXCEPT ![f] = "False"]
            /\ fpc' = [fpc EXCEPT ![f] = "idle"]
       ELSE /\ events_cache' = fresp[f].body
            /\ cacheBy' = fcall[f]
            /\ seen' = IF Reading THEN seen \cup {fresp[f].body} ELSE seen
            /\ fpc' = [fpc EXCEPT ![f] = "e66"]
            /\ UNCHANGED <<last_update, data_lock, fret, stampBy>>
    /\ UNCHANGED <<categories_cache, fresp, fcall, fstamp, calls, clock,
                   committed>>
    /\ UNCHANGED <<rpc, rop, rargs, rlocal, rresult>>

\* line 66: self.last_update = datetime.now()
StoreLastUpdate(f) ==
    /\ fpc[f] = "e66"
    /\ clock' = clock + 1
    /\ last_update' = clock + 1
    /\ fstamp' = [fstamp EXCEPT ![f] = clock + 1]
    /\ stampBy' = fcall[f]
    /\ fpc' = [fpc EXCEPT ![f] = "e68"]
    /\ UNCHANGED <<events_cache, categories_cache, data_lock, fresp, fret,
                   fcall, calls, cacheBy, committed>>
    /\ UNCHANGED readVars

\* the end of the with statement and line 68: return True
ReleaseAndReturn(f) ==
    /\ fpc[f] = "e68"
    /\ data_lock' = "free"
    /\ fret' = [fret EXCEPT ![f] = "True"]
    /\ committed' = committed \cup
         {[call |-> fcall[f], payload |-> fresp[f].body, stamp |-> fstamp[f]]}
    /\ fpc' = [fpc EXCEPT ![f] = "idle"]
    /\ UNCHANGED <<events_cache, categories_cache, last_update, fresp, fcall,
                   fstamp, calls, clock, cacheBy, stampBy>>
    /\ UNCHANGED readVars

\* lines 75-77, and 80-82 when the request fails
RequestCategories(f) ==
    /\ fpc[f] = "idle"
    /\ calls < MaxCalls
    /\ calls' = calls + 1
    /\ fcall' = [fcall EXCEPT ![f] = calls + 1]
    /\ fstamp' = [fstamp EXCEPT ![f] = 0]
    /\ \E r \in CategoryResponses :
         /\ fresp' = [fresp EXCEPT ![f] = r]
         /\ IF r.kind \in {"transport", "status"}
            THEN /\ fret' = [fret EXCEPT ![f] = "False"]
                 /\ UNCHANGED fpc
            ELSE /\ fpc' = [fpc EXCEPT ![f] = "c78"]
                 /\ fret' = [fret EXCEPT ![f] = "none"]
    /\ UNCHANGED <<events_cache, categories_cache, last_update, data_lock,
                   clock, cacheBy, stampBy, committed>>
    /\ UNCHANGED readVars

\* lines 78-79, and 80-82 when json raises: no lock is taken
StoreCategories(f) ==
    /\ fpc[f] = "c78"
    /\ IF fresp[f].kind = "undecodable"
       THEN /\ fret' = [fret EXCEPT ![f] = "False"]
            /\ UNCHANGED categories_cache
       ELSE /\ categories_cache' = fresp[f].body
            /\ fret' = [fret EXCEPT ![f] = "True"]
    /\ fpc' = [fpc EXCEPT ![f] = "idle"]
    /\ UNCHANGED <<events_cache, last_update, data_lock, fresp, fcall, fstamp,
                   calls, clock, cacheBy, stampBy, committed>>
    /\ UNCHANGED readVars

---------------------------------------------------------------------------
(* The read path, statement by statement: every evaluation of              *)
(* self.events_cache is a step of its own, and takes no lock               *)

ReaderFree == rpc \in {"idle", "done"}

\* line 87 of get_filtered_events: if not self.events_cache
ReadFilterCheck(a) ==
    /\ ReaderFree
    /\ rop' = "filter"
    /\ rargs' = a
    /\ seen' = {events_cache}
    /\ rlocal' = NoCache
    /\ IF ~CacheTruthy(events_cache)
       THEN /\ rresult' = [status |-> "ok", events |-> <<>>]
            /\ rpc' = "done"
       ELSE /\ rresult' = NoResult
            /\ rpc' = "f91"
    /\ UNCHANGED events_cache
    /\ UNCHANGED fetchVars

\* lines 90-137: self.events_cache.get('events', []) and the loop over it
ReadFilterLoop ==
    /\ rpc = "f91"
    /\ rop = "filter"
    /\ rlocal' = events_cache
    /\ rresult' = FilterPayload(events_cache, rargs)
    /\ rpc' = "done"
    /\ UNCHANGED <<rop, rargs, seen, events_cache>>
    /\ UNCHANGED fetchVars

\* lines 231-243 of get_summary_statistics: if not self.events_cache
ReadSummaryCheck ==
    /\ ReaderFree
    /\ rop' = "summary"
    /\ rargs' = NoArgs
    /\ seen' = {events_cache}
    /\ rlocal' = EmptyStats
    /\ IF ~CacheTruthy(events_cache)
       THEN /\ rresult' = EmptyStats
            /\ rpc' = "done"
       ELSE /\ rresult' = NoResult
            /\ rpc' = "s245"
    /\ UNCHANGED events_cache
    /\ UNCHANGED fetchVars

\* line 245: len(self.events_cache['events'])
ReadSummaryCount ==
    /\ rpc = "s245"
    /\ rlocal' = SummaryCount(rlocal, events_cache)
    /\ rpc' = "s247"
    /\ UNCHANGED <<rop, rargs, rresult, seen, events_cache>>
    /\ UNCHANGED fetchVars

\* lines 247-285: self.events_cache['events'] and the loop over it
ReadSummaryLoop ==
    /\ rpc = "s247"
    /\ rresult' = SummaryLoop(events_cache.events, 1, rlocal)
    /\ rpc' = "done"
    /\ UNCHANGED <<rop, rargs, rlocal, seen, events_cache>>
    /\ UNCHANGED fetchVars

\* line 289 of get_trend_analysis, into line 87 of get_filtered_events
ReadTrendCheck(category, period) ==
    /\ ReaderFree
    /\ rop' = "trend"
    /\ rargs' = TrendArgs(category, period)
    /\ seen' = {events_cache}
    /\ rlocal' = NoCache
    /\ IF ~CacheTruthy(events_cache)
       THEN /\ rresult' = TrendOfFiltered([status |-> "ok", events |-> <<>>],
                                          period)
            /\ rpc' = "done"
       ELSE /\ rresult' = NoResult
            /\ rpc' = "t91"
    /\ UNCHANGED events_cache
    /\ UNCHANGED fetchVars

\* lines 90-137 of get_filtered_events, then lines 291-313
ReadTrendLoop ==
    /\ rpc = "t91"
    /\ rlocal' = events_cache
    /\ rresult' = TrendOfFiltered(FilterPayload(events_cache, rargs),
                                  rargs.period)
    /\ rpc' = "done"
    /\ UNCHANGED <<rop, rargs, seen, events_cache>>
    /\ UNCHANGED fetchVars

---------------------------------------------------------------------------
(* The read operations as whole calls, when no refresh runs beside them *)

CallFiltered(a) ==
    /\ rpc = "idle"
    /\ rop' = "filter"
    /\ rargs' = a
    /\ seen' = {events_cache}
    /\ rlocal' = events_cache
    /\ rresult' = get_filtered_events(events_cache, a)
    /\ rpc' = "done"
    /\ UNCHANGED events_cache
    /\ UNCHANGED fetchVars

CallSummary ==
    /\ rpc = "idle"
    /\ rop' = "summary"
    /\ rargs' = NoArgs
    /\ seen' = {events_cache}
    /\ rlocal' = events_cache
    /\ rresult' = get_summary_statistics(events_cache)
    /\ rpc' = "done"
    /\ UNCHANGED events_cache
    /\ UNCHANGED fetchVars

CallTrend(category, period) ==
    /\ rpc = "idle"
    /\ rop' = "trend"
    /\ rargs' = TrendArgs(category, period)
    /\ seen' = {events_cache}
    /\ rlocal' = events_cache
    /\ rresult' = get_trend_analysis(events_cache, category, period)
    /\ rpc' = "done"
    /\ UNCHANGED events_cache
    /\ UNCHANGED fetchVars

---------------------------------------------------------------------------
(* Specifications *)

\* the reader before its first call
ReaderInit ==
    /\ rpc = "idle"
    /\ rop = "none"
    /\ rargs = NoArgs
    /\ rlocal = NoCache
    /\ rresult = NoResult
    /\ seen = {}

\* no fetcher is inside a call
FetchersIdle ==
    /\ data_lock = "free"
    /\ fpc = [f \in Fetchers |-> "idle"]
    /\ fresp = [f \in Fetchers |-> NoResponse]
    /\ fret = [f \in Fetchers |-> "none"]
    /\ fcall = [f \in Fetchers |-> 0]
    /\ fstamp = [f \in Fetchers |-> 0]

\* lines 17-24: the fields as __init__ sets them, before initialize() runs
\* the first fetch_categories and fetch_events
Init ==
    /\ events_cache = NoCache
    /\ categories_cache = NoCategories
    /\ last_update = 0
    /\ calls = 0
    /\ clock = 0
    /\ cacheBy = 0
    /\ stampBy = 0
    /\ committed = {}
    /\ FetchersIdle
    /\ ReaderInit

\* the arguments of the reads that run beside refreshes
ConcurrentFilterArgs ==
    {NoArgs, Args(None, None, Ident("wildfires"), None, None, "")}

Next ==
    \/ \E f \in Fetchers : RequestEvents(f)
    \/ \E f \in Fetchers : AcquireLock(f)
    \/ \E f \in Fetchers : StoreEvents(f)
    \/ \E f \in Fetchers : StoreLastUpdate(f)
    \/ \E f \in Fetchers : ReleaseAndReturn(f)
    \/ \E f \in Fetchers : RequestCategories(f)
    \/ \E f \in Fetchers : StoreCategories(f)
    \/ \E a \in ConcurrentFilterArgs : ReadFilterCheck(a)
    \/ ReadFilterLoop
    \/ ReadSummaryCheck
    \/ ReadSummaryCount
    \/ ReadSummaryLoop
    \/ ReadTrendCheck(None, "monthly")
    \/ ReadTrendLoop

Spec == Init /\ [][Next]_vars

\* the object after a refresh history that left `cache` in events_cache:
\* never fetched, or one successful fetch_events (call 1, clock reading 1)
Loaded(cache) ==
    /\ events_cache = cache
    /\ categories_cache = NoCategories
    /\ last_update = (IF CacheTruthy(cache) THEN 1 ELSE 0)
    /\ calls = (IF CacheTruthy(cache) THEN 1 ELSE 0)
    /\ clock = (IF CacheTruthy(cache) THEN 1 ELSE 0)
    /\ cacheBy = (IF CacheTruthy(cache) THEN 1 ELSE 0)
    /\ stampBy = (IF CacheTruthy(cache) THEN 1 ELSE 0)
    /\ committed = (IF CacheTruthy(cache)
                    THEN {[call |-> 1, payload |-> cache, stamp |-> 1]}
                    ELSE {})
    /\ FetchersIdle
    /\ ReaderInit

CacheContents(pool, n) == {NoCache} \cup {Payload(evs) : evs \in SeqsUpTo(pool, n)}

FilterArgs ==
    {Args(sd, ed, et, mn, mx, "") :
        sd \in DateArgs, ed \in DateArgs, et \in TypeArgs,
        mn \in MinArgs, mx \in MaxArgs}

InitPure == \E cache \in CacheContents(EventPool, MaxEvents) : Loaded(cache)

NextPure ==
    \/ \E a \in FilterArgs : CallFiltered(a)
    \/ CallSummary

\* get_filtered_events and get_summary_statistics on every cache content
SpecPure == InitPure /\ [][NextPure]_vars

\* a date that names no day, and a date without zero padding
EvBadDate ==
    Event("EONET_7", <<Wildfires>>,
          <<Frame(Str(<<"2", "0", "2", "4", "-", "1", "3", "-", "0", "1">>),
                  Absent, Absent)>>,
          Absent, Absent)

EvShortDate ==
    Event("EONET_8", <<Wildfires>>,
          <<Frame(Str(<<"2", "0", "2", "4", "-", "2", "-", "1">>),
                  Absent, Absent)>>,
          Absent, Absent)

TrendPool ==
    {EvFrameMag, EvRootMag, EvNullMag, EvNoGeometry, EvBadDate, EvShortDate}

Periods == {"monthly", "weekly", "daily", "yearly"}

InitTrend == \E cache \in CacheContents(TrendPool, MaxTrendEvents) : Loaded(cache)

NextTrend == \E c \in TypeArgs, p \in Periods : CallTrend(c, p)

\* get_trend_analysis on every cache content
SpecTrend == InitTrend /\ [][NextTrend]_vars

---------------------------------------------------------------------------
(* Properties of the filter engine, checked under SpecPure *)

FilterDone == rpc = "done" /\ rop = "filter"

InSeq(e, s) == \E i \in 1..Len(s) : s[i] = e

\* a bound or a category that is a non-empty string
GivenText(v) == v.t = "str" /\ (v.s # <<>> \/ v.a # "")

\* the event has a representative date
HasDay(e) == e.geometry # <<>> /\ e.geometry[1].date.t = "str"

\* the representative date: the first ten characters of the first frame's date
DayOf(e) ==
    LET d == e.geometry[1].date.s
    IN [i \in 1..(IF Len(d) < 10 THEN Len(d) ELSE 10) |-> d[i]]

\* start <= d <= end for the bounds that are given
InWindow(e, a) ==
    /\ GivenText(a.start_date) \/ GivenText(a.end_date) => HasDay(e)
    /\ GivenText(a.start_date) => ~StrLess(DayOf(e), a.start_date.s)
    /\ GivenText(a.end_date) => ~StrLess(a.end_date.s, DayOf(e))

\* the first category is the one asked for
InCategory(e, a) ==
    GivenText(a.event_type) =>
        e.categories # <<>> /\ e.categories[1].id = a.event_type.a

\* C4: with no constraints get_filtered_events returns exactly the cached
\* events, all of them and in cache order; the empty list on an empty cache
UnconstrainedFilterIsIdentity ==
    FilterDone /\ rargs = NoArgs =>
        /\ rresult.status = "ok"
        /\ rresult.events = events_cache.events

UnconstrainedFilterWitness ==
    /\ FilterDone /\ rargs = NoArgs
    /\ Len(events_cache.events) = 2
    /\ events_cache.events[1] # events_cache.events[2]
    /\ rresult.events = events_cache.events

OnlyDateWindow(a) ==
    a.event_type = None /\ a.min_magnitude = None /\ a.max_magnitude = None

\* C5: with only a date window the result is exactly the cached events whose
\* representative date d has start <= d <= end as strings, in cache order;
\* a date equal to a bound is inside, and an absent bound restricts nothing
DateWindowIsInclusive ==
    FilterDone /\ OnlyDateWindow(rargs) =>
        /\ rresult.status = "ok"
        /\ rresult.events =
             SelectSeq(events_cache.events, LAMBDA e : InWindow(e, rargs))

DateWindowWitness ==
    /\ FilterDone /\ OnlyDateWindow(rargs)
    /\ GivenText(rargs.start_date)
    /\ rargs.end_date = rargs.start_date
    /\ Len(events_cache.events) = 2
    /\ Len(rresult.events) = 1
    /\ Len(rresult.events[1].geometry[1].date.s) > 10
    /\ DayOf(rresult.events[1]) = rargs.end_date.s

\* a magnitude bound that is given and names a number
BoundGiven(b) == b.t # "none" /\ Float(b).ok

\* every magnitude bound is absent or names a number
BoundsReadable(a) ==
    /\ a.min_magnitude.t # "none" => Float(a.min_magnitude).ok
    /\ a.max_magnitude.t # "none" => Float(a.max_magnitude).ok

\* v lies in [minMagnitude, maxMagnitude], for the bounds that are given
InRange(v, a) ==
    /\ BoundGiven(a.min_magnitude) => v >= Float(a.min_magnitude).v
    /\ BoundGiven(a.max_magnitude) => v <= Float(a.max_magnitude).v

\* C6: an event whose magnitude resolves and that passes the date and
\* category constraints is returned exactly when its magnitude lies in the
\* requested range; a bound that is given is enforced, a bound of 0 too
MagnitudeRangeEnforced ==
    FilterDone /\ BoundsReadable(rargs) =>
        \A i \in 1..Len(events_cache.events) :
            LET e == events_cache.events[i]
                m == ResolveMagnitude(e)
            IN m.some /\ InWindow(e, rargs) /\ InCategory(e, rargs) =>
                   (InSeq(e, rresult.events) <=> InRange(m.v, rargs))

\* v is a number or a text that float() reads
Parsable(v) == v.t \in {"num", "str"} /\ Float(v).ok

\* no parsable magnitudeValue on the event or on any frame
Unresolved(e) ==
    /\ ~Parsable(e.magnitudeValue)
    /\ \A i \in 1..Len(e.geometry) : ~Parsable(e.geometry[i].magnitudeValue)

\* C7: an event whose magnitude cannot be resolved is never dropped by the
\* magnitude filter: if it passes the date and category constraints it is in
\* the result, whatever minMagnitude and maxMagnitude are
UnresolvedMagnitudeKept ==
    FilterDone =>
        \A i \in 1..Len(events_cache.events) :
            LET e == events_cache.events[i]
            IN Unresolved(e) /\ InWindow(e, rargs) /\ InCategory(e, rargs) =>
                   InSeq(e, rresult.events)

UnresolvedMagnitudeWitness ==
    /\ FilterDone
    /\ rargs.min_magnitude = Num(20)
    /\ rargs.max_magnitude = Str(<<"2", ".", "0">>)
    /\ \E i \in 1..Len(events_cache.events) :
          /\ Unresolved(events_cache.events[i])
          /\ InSeq(events_cache.events[i], rresult.events)
    /\ \E i \in 1..Len(events_cache.events) :
          /\ ~Unresolved(events_cache.events[i])
          /\ ~InSeq(events_cache.events[i], rresult.events)

\* r is s with some elements left out
RECURSIVE IsSubseq(_, _)
IsSubseq(r, s) ==
    IF r = <<>> THEN TRUE
    ELSE IF s = <<>> THEN FALSE
    ELSE IF Head(r) = Head(s) THEN IsSubseq(Tail(r), Tail(s))
    ELSE IsSubseq(r, Tail(s))

\* every field a given constraint reads is there, and every bound the
\* magnitude test converts is readable
Evaluable(e, a) ==
    /\ GivenText(a.start_date) \/ GivenText(a.end_date) => HasDay(e)
    /\ GivenText(a.event_type) => e.categories # <<>>
    /\ ~Unresolved(e) => BoundsReadable(a)

\* C8: get_filtered_events never fails as a whole: an event whose evaluation
\* raises is skipped alone, and every other cached event that satisfies the
\* constraints is still returned, in cache order
FilterNeverFails ==
    FilterDone =>
        /\ rresult.status = "ok"
        /\ IsSubseq(rresult.events, events_cache.events)
        /\ \A i \in 1..Len(events_cache.events) :
              LET e == events_cache.events[i]
              IN /\ EventOutcome(e, rargs) = "raise" => ~InSeq(e, rresult.events)
                 /\ ( /\ Evaluable(e, rargs)
                      /\ InWindow(e, rargs)
                      /\ InCategory(e, rargs)
                      /\ (~Unresolved(e) =>
                            InRange(ResolveMagnitude(e).v, rargs)) )
                    => InSeq(e, rresult.events)

FilterNeverFailsWitness ==
    /\ FilterDone
    /\ Len(events_cache.events) = 2
    /\ EventOutcome(events_cache.events[1], rargs) = "raise"
    /\ rresult.status = "ok"
    /\ rresult.events = <<events_cache.events[2]>>

---------------------------------------------------------------------------
(* Properties of the analytics engine *)

SummaryDone == rpc = "done" /\ rop = "summary"

\* the number of cached events whose effective magnitude satisfies Q
CountEvents(events, Q(_)) ==
    Cardinality({i \in 1..Len(events) : Q(ResolveMagnitude(events[i]))})

\* C9: get_summary_statistics counts every cached event into exactly one
\* magnitude bucket, chosen from the effective magnitude of the
\* root-then-geometry chain: low when unresolved or below 1.5, medium from
\* 1.5 to below 5.0, high from 5.0; so low + medium + high = event_count
MagnitudeBucketsCoverEvents ==
    SummaryDone =>
        LET evs == events_cache.events
            mags == rresult.magnitudes
        IN /\ mags.low + mags.medium + mags.high = rresult.event_count
           /\ mags.low = CountEvents(evs, LAMBDA m : ~m.some \/ m.v < 15)
           /\ mags.medium =
                CountEvents(evs, LAMBDA m : m.some /\ m.v >= 15 /\ m.v < 50)
           /\ mags.high = CountEvents(evs, LAMBDA m : m.some /\ m.v >= 50)

TrendDone == rpc = "done" /\ rop = "trend"

\* the cached events the category argument selects
Matching ==
    SelectSeq(events_cache.events, LAMBDA e : InCategory(e, rargs))

\* the representative date of e names a day
DateReadable(e) == HasDay(e) /\ ParseDate(DayOf(e)).ok

\* the period key of e
KeyOf(e) == PeriodKey(ParseDate(DayOf(e)), rargs.period)

\* the position in s of the first element with key k
FirstSeen(s, k) ==
    CHOOSE j \in 1..Len(s) :
        KeyOf(s[j]) = k /\ \A h \in 1..(j - 1) : KeyOf(s[h]) # k

\* C10: get_trend_analysis returns one bucket per distinct period key of the
\* matching events, in first-seen order, with counts[i] the number of
\* matching events in periods[i]; trend is (last count - first count) /
\* number of buckets, 0 with fewer than two buckets; average, max and min are
\* over the bucket counts; with no matching event everything is empty or 0
TrendBucketsAndSlope ==
    TrendDone =>
        LET M == Matching
            P == rresult.periods
            C == rresult.counts
            n == Len(C)
        IN /\ (\A j \in 1..Len(M) : DateReadable(M[j]))
                 => rresult.status = "ok"
           /\ rresult.status = "ok" =>
                /\ \A j \in 1..Len(M) : DateReadable(M[j])
                /\ Len(P) = n
                /\ \A i, k \in 1..n : P[i] = P[k] => i = k
                /\ {P[i] : i \in 1..n} = {KeyOf(M[j]) : j \in 1..Len(M)}
                /\ \A i \in 1..n :
                      C[i] = Cardinality({j \in 1..Len(M) : KeyOf(M[j]) = P[i]})
                /\ \A i, k \in 1..n :
                      i < k => FirstSeen(M, P[i]) < FirstSeen(M, P[k])
                /\ rresult.trend.den > 0
                /\ IF n < 2 THEN rresult.trend.num = 0
                   ELSE rresult.trend.num * n = (C[n] - C[1]) * rresult.trend.den
                /\ rresult.average.den > 0
                /\ IF n = 0 THEN rresult.average.num = 0
                   ELSE rresult.average.num * n = SumSeq(C) * rresult.average.den
                /\ IF n = 0 THEN rresult.max = 0 /\ rresult.min = 0
                   ELSE /\ \E i \in 1..n : C[i] = rresult.max
                        /\ \E i \in 1..n : C[i] = rresult.min
                        /\ \A i \in 1..n : rresult.min <= C[i] /\ C[i] <= rresult.max
                /\ M = <<>> => P = <<>> /\ C = <<>>

TrendWitness ==
    /\ TrendDone
    /\ rresult.status = "ok"
    /\ rargs.period = "monthly"
    /\ rresult.counts = <<2, 1>>
    /\ rresult.trend.num < 0
    /\ GivenText(rargs.event_type)
    /\ InSeq(EvShortDate, Matching)

---------------------------------------------------------------------------
(* Properties of the cache under concurrent refreshes and reads (Spec) *)

\* the result of the finished read, computed on the single cache value s
ResultOn(s) ==
    CASE rop = "filter" -> get_filtered_events(s, rargs)
      [] rop = "summary" -> get_summary_statistics(s)
      [] OTHER -> get_trend_analysis(s, rargs.event_type, rargs.period)

\* C1: a read that runs beside fetch_events computes its whole result from
\* one cache value, the one stored before the replace or the one stored after
\* it: in get_summary_statistics event_count and the counts come from the
\* same payload
ReadsUseOneSnapshot ==
    rpc = "done" => \E s \in seen : rresult = ResultOn(s)

\* no fetcher holds data_lock or is about to store under it
LockFree == data_lock = "free"

\* the entry of committed the cache should hold: the latest store
LatestCommit(c) == c \in committed /\ \A d \in committed : d.stamp <= c.stamp

\* the events cache is empty and unstamped, or holds what the successful
\* call that stored last wrote
CacheIsLastSuccess ==
    LockFree =>
        IF committed = {}
        THEN events_cache = NoCache /\ last_update = 0
        ELSE \E c \in committed :
                /\ LatestCommit(c)
                /\ events_cache = c.payload
                /\ last_update = c.stamp

\* the fetcher takes a step of its call
FetcherStep(f) == fpc'[f] # fpc[f] \/ fcall'[f] # fcall[f]

\* the call of f has failed or is going to: request, status or decoding
Failing(f) == fresp[f].kind \in {"transport", "status", "undecodable"}

\* C2: a refresh that fails leaves events_cache and last_update (and
\* fetch_categories categories_cache) as they were and returns False; after
\* any sequence of refreshes the cache holds the payload of the most recent
\* successful one, or is still empty
FailedRefreshKeepsCache ==
    /\ []CacheIsLastSuccess
    /\ [][\A f \in Fetchers :
            FetcherStep(f) /\ Failing(f)' =>
                /\ UNCHANGED <<events_cache, last_update, categories_cache>>
                /\ fpc'[f] = "idle" => fret'[f] = "False"]_vars

FailedRefreshWitness ==
    \E f \in Fetchers :
        /\ fpc[f] = "idle"
        /\ fresp[f].kind = "undecodable"
        /\ fret[f] = "False"
        /\ CacheTruthy(events_cache)
        /\ CacheTruthy(categories_cache)
        /\ last_update > 0

\* C3: whenever no refresh holds data_lock, events_cache and last_update are
\* both unset or are the payload and the timestamp one successful
\* fetch_events call wrote; two concurrent successful calls both make their
\* request, and afterwards the cache holds the payload and timestamp of the
\* call that replaced last
CachePairFromOneFetch ==
    LockFree =>
        \/ /\ events_cache = NoCache /\ last_update = 0
           /\ cacheBy = 0 /\ stampBy = 0
        \/ /\ cacheBy = stampBy
           /\ \E c \in committed :
                 /\ c.call = cacheBy
                 /\ c.payload = events_cache
                 /\ c.stamp = last_update
                 /\ \A d \in committed : d.stamp <= c.stamp
           /\ calls >= Cardinality(committed)

CachePairWitness ==
    /\ LockFree
    /\ \A f \in Fetchers : fpc[f] = "idle" /\ fret[f] = "True"
    /\ \E c, d \in committed :
          /\ c.call < d.call
          /\ c.stamp > d.stamp
          /\ c.payload # d.payload
          /\ events_cache = c.payload
          /\ last_update = c.stamp

---------------------------------------------------------------------------
(* Malformed events in the analytics calls *)

\* the cache without the events that have no representative date naming a day
WithoutMalformed(cache) ==
    IF CacheTruthy(cache)
    THEN Payload(SelectSeq(cache.events, DateReadable))
    ELSE cache

\* the summary call returned the statistics record
SummaryReturned ==
    /\ rresult.event_count = Len(events_cache.events)
    /\ rresult.magnitudes.low + rresult.magnitudes.medium
         + rresult.magnitudes.high <= rresult.event_count

\* C11: one malformed cached event (no geometry frame, or a representative
\* date that is no YYYY-MM-DD day) never makes an analytics call fail:
\* get_trend_analysis and get_summary_statistics skip it, go on with the
\* other events and return the partial result instead of raising
AnalyticsSkipMalformed ==
    /\ SummaryDone => SummaryReturned
    /\ TrendDone =>
          /\ rresult.status = "ok"
          /\ rresult = get_trend_analysis(WithoutMalformed(events_cache),
                                          rargs.event_type, rargs.period)

====
